---- MODULE Spec2Model ----
(***************************************************************************)
(* Matrix-multiplication benchmark suite (Stage 1 baseline, Stage 2        *)
(* optimised kernels, Stage 3 process-parallel kernel and their drivers).  *)
(*                                                                         *)
(* Floating-point values are modelled as exact integers (numerators of a   *)
(* fixed-point value), so that "equal within tolerance" becomes "equal".   *)
(* Python lists are sequences (1-based here, 0-based in the source): the   *)
(* source's index i is the model's index i+1.  Column indices stored in    *)
(* col_idx and the start offsets of tasks keep the source's 0-based value. *)
(***************************************************************************)
EXTENDS Integers, Sequences, FiniteSets, TLC

(***************************************************************************)
(* Bounds of the model.                                                    *)
(***************************************************************************)
MaxN == 3
MaxP == 4
MaxSeed == 1
MaxDensityNum == 6
MaxRepeats == 2
MaxThreads == 3

\* argparse defaults of mm_opt.py: --block 64, --density 0.05 (= 1/20)
DefaultBlock == 64
DefaultDensity == [num |-> 1, den |-> 20]

(***************************************************************************)
(* Program constants.                                                      *)
(***************************************************************************)
BASE_SEED == 403086
SEED == 403086

VARIABLES
    \* ---- parallel_mul (Stage 3) ----
    A, B, p, tasks, futures, C, merged, ppc,
    \* ---- dense kernels (Stage 2) ----
    kA, kB, BS, Cbasic, Ctransposed, Cblocked,
    \* ---- gen_sparse_csr and spmm_csr_dense (Stage 2) ----
    sn, density, sseed, nnz_target, per_row, leftover, srow,
    row_ptr, col_idx, vals, sB, sC, spc,
    \* ---- the benchmark drivers (Stage 1, 2, 3 main) ----
    args, dpc, sidx, r, seedA, seedB, dA, dB, dt, times, T1, records,
    generated, multiplied

parVars == <<A, B, p, tasks, futures, C, merged, ppc>>
kernVars == <<kA, kB, BS, Cbasic, Ctransposed, Cblocked>>
csrVars == <<sn, density, sseed, nnz_target, per_row, leftover, srow,
             row_ptr, col_idx, vals, sB, sC, spc>>
drvVars == <<args, dpc, sidx, r, seedA, seedB, dA, dB, dt, times, T1, records,
             generated, multiplied>>
vars == <<parVars, kernVars, csrVars, drvVars>>

Min(a, b) == IF a < b THEN a ELSE b
Max(a, b) == IF a > b THEN a ELSE b

(***************************************************************************)
(* random.Random(seed).random(): the k-th draw (k = 1, 2, ...) of the      *)
(* generator seeded with seed.  A deterministic function of (seed, k);     *)
(* the values stand for floats in [0,1) (numerators over 5).               *)
(***************************************************************************)
Rand(seed, k) == ((seed + 1) * k + k * k) % 5

\* gen_dense / gen_matrix / generate_dense: n rows of n draws, row-major.
\* range(n) is empty for n <= 0, so the result is then the empty list.
gen_dense(n, seed) ==
    [i \in 1..n |-> [j \in 1..n |-> Rand(seed, (i - 1) * n + j)]]

Zeros(rows, cols) == [i \in 1..rows |-> [j \in 1..cols |-> 0]]

(***************************************************************************)
(* The k, j loops shared by matmul_basic and worker_chunk:                 *)
(*   for k in range(n): aik = Ai[k]; Bk = B[k]                             *)
(*       for j in range(n): Ci[j] += aik * Bk[j]                           *)
(* KLoop(Ci, Ai, B, k, n) is Ci after the iterations k..n of the k loop.   *)
(***************************************************************************)
RECURSIVE KLoop(_, _, _, _, _)
KLoop(Ci, Ai, Bm, k, n) ==
    IF k > n THEN Ci
    ELSE KLoop([j \in 1..n |-> Ci[j] + Ai[k] * Bm[k][j]], Ai, Bm, k + 1, n)

matmul_basic(Am, Bm) ==
    LET n == Len(Am)
    IN  [i \in 1..n |-> KLoop([j \in 1..n |-> 0], Am[i], Bm, 1, n)]

(***************************************************************************)
(* matmul_transposed: BT[i][j] = B[j][i]; C[i][j] = sum_k A[i][k]*BT[j][k] *)
(***************************************************************************)
RECURSIVE DotLoop(_, _, _, _, _)
DotLoop(s, Ai, btj, k, n) ==
    IF k > n THEN s ELSE DotLoop(s + Ai[k] * btj[k], Ai, btj, k + 1, n)

Transpose(Bm, n) == [i \in 1..n |-> [j \in 1..n |-> Bm[j][i]]]

matmul_transposed(Am, Bm) ==
    LET n == Len(Am)
        BT == Transpose(Bm, n)
    IN  [i \in 1..n |-> [j \in 1..n |-> DotLoop(0, Am[i], BT[j], 1, n)]]

(***************************************************************************)
(* matmul_blocked.  range(0, n, BS) raises ValueError for BS = 0 and is    *)
(* empty for BS < 0 (n = len(A) >= 0).                                     *)
(***************************************************************************)
RECURSIVE RangeFrom(_, _, _)
RangeFrom(start, stop, step) ==
    IF start >= stop THEN <<>>
    ELSE <<start>> \o RangeFrom(start + step, stop, step)

\* range(0, n - n % BS, BS): the tiles that lie wholly inside the matrix.
TileStartsFullOnly(n, bs) ==
    IF bs < 0 THEN <<>> ELSE RangeFrom(0, n - (n % bs), bs)

\* range(0, n, BS) for BS # 0
TileStarts(n, bs) == IF bs < 0 THEN <<>> ELSE RangeFrom(0, n, bs)

RECURSIVE TileK(_, _, _, _, _)
\* sum over k in range(kk, k_max) of A[i][k] * B[k][j]   (k 0-based)
TileK(Ai, Bm, j, k, k_max) ==
    IF k >= k_max THEN 0
    ELSE Ai[k + 1] * Bm[k + 1][j] + TileK(Ai, Bm, j, k + 1, k_max)

\* What the three inner loops of the tile (ii, kk, jj), clamped at the
\* matrix edge, add to C[i][j]  (i, j 1-based; ii, kk, jj 0-based)
TileUpdate(Am, Bm, i, j, ii, kk, jj, bs, n) ==
    LET i_max == Min(ii + bs, n)
        k_max == Min(kk + bs, n)
        j_max == Min(jj + bs, n)
    IN  IF ii <= i - 1 /\ i - 1 < i_max /\ jj <= j - 1 /\ j - 1 < j_max
        THEN TileK(Am[i], Bm, j, kk, k_max)
        ELSE 0

\* The ii, kk, jj loops over the list T of tile starts (a, b, c index the
\* current tile): what the tiles from the current one on add to C[i][j].
RECURSIVE LoopJJ(_, _, _, _, _, _, _, _, _)
LoopJJ(Am, Bm, bs, T, i, j, a, b, c) ==
    IF c > Len(T) THEN 0
    ELSE TileUpdate(Am, Bm, i, j, T[a], T[b], T[c], bs, Len(Am))
         + LoopJJ(Am, Bm, bs, T, i, j, a, b, c + 1)

RECURSIVE LoopKK(_, _, _, _, _, _, _, _)
LoopKK(Am, Bm, bs, T, i, j, a, b) ==
    IF b > Len(T) THEN 0
    ELSE LoopJJ(Am, Bm, bs, T, i, j, a, b, 1)
         + LoopKK(Am, Bm, bs, T, i, j, a, b + 1)

RECURSIVE LoopII(_, _, _, _, _, _, _)
LoopII(Am, Bm, bs, T, i, j, a) ==
    IF a > Len(T) THEN 0
    ELSE LoopKK(Am, Bm, bs, T, i, j, a, 1)
         + LoopII(Am, Bm, bs, T, i, j, a + 1)

\* The outcome: the result matrix val (C starts as zeros and every tile adds
\* to it), or err = "ValueError" (range() arg 3 must not be zero), raised by
\* the first range() call.
matmul_blocked(Am, Bm, bs) ==
    LET n == Len(Am)
        T == TileStarts(n, bs)
    IN  IF bs = 0 THEN [err |-> "ValueError", val |-> <<>>]
        ELSE [err |-> "none",
              val |-> [i \in 1..n |-> [j \in 1..n |->
                          LoopII(Am, Bm, bs, T, i, j, 1)]]]

(***************************************************************************)
(* Stage 3: worker_chunk and parallel_mul.                                 *)
(***************************************************************************)
worker_chunk(task) ==
    LET n == Len(task.B)
    IN  [start_i |-> task.start_i,
         C_chunk |-> [idx \in 1..Len(task.A_chunk) |->
                        KLoop([j \in 1..n |-> 0], task.A_chunk[idx], task.B, 1, n)]]

\* A[i0:i1] (0-based, half-open; empty when i0 >= i1)
Slice(s, i0, i1) == SubSeq(s, i0 + 1, Min(i1, Len(s)))

\* i1 = (t+1)*chunk for every task, the last included
TaskEndNoRemainder(t, chunk, n, np) == (t + 1) * chunk

\* i1 of task t: the last task takes every remaining row.
TaskEnd(t, chunk, n, np) == IF t = np - 1 THEN n ELSE (t + 1) * chunk

\* i0 one row past the end of the previous chunk
TaskStartShifted(t, chunk) == IF t = 0 THEN 0 ELSE t * chunk + 1

\* i0 of task t
TaskStart(t, chunk) == t * chunk

\* the list `tasks` built by parallel_mul (np >= 1); task t is tasks[t+1]
BuildTasks(Am, Bm, np) ==
    LET n == Len(Am)
        chunk == n \div np
    IN  [t1 \in 1..np |->
            [A_chunk |-> Slice(Am, TaskStart(t1 - 1, chunk),
                                   TaskEnd(t1 - 1, chunk, n, np)),
             B |-> Bm,
             start_i |-> TaskStart(t1 - 1, chunk)]]

\* for off, row in enumerate(C_chunk): C[start_i+off] = row
\* (every index written is inside C, see MergeNext)
MergeChunk(Cm, res) ==
    [i \in 1..Len(Cm) |->
        IF res.start_i < i /\ i <= res.start_i + Len(res.C_chunk)
        THEN res.C_chunk[i - res.start_i] ELSE Cm[i]]

\* a kernel result: not yet computed, returned val, or raised err
NotRun == [err |-> "notrun", val |-> <<>>]
Returned(m) == [err |-> "none", val |-> m]

KernIdle ==
    /\ kA = <<>> /\ kB = <<>> /\ BS = 0
    /\ Cbasic = NotRun /\ Ctransposed = NotRun /\ Cblocked = NotRun

\* a future of the pool whose task has not finished
Pending ==
    [done |-> FALSE, failed |-> FALSE, result |-> [start_i |-> 0, C_chunk |-> <<>>]]

\* a future whose worker raised: it is finished and holds the exception
Failed ==
    [done |-> TRUE, failed |-> TRUE, result |-> [start_i |-> 0, C_chunk |-> <<>>]]

\* the exception of a worker dropped, its future read as an empty chunk
RaisesNever(f) == FALSE

\* ex.map's iterator re-raises the exception of a failed future when the
\* loop reaches it
Raises(f) == f.failed

CsrIdle ==
    /\ sn = 0 /\ density = [num |-> 0, den |-> 1] /\ sseed = 0
    /\ nnz_target = 0 /\ per_row = 0 /\ leftover = 0 /\ srow = 0
    /\ row_ptr = <<>> /\ col_idx = <<>> /\ vals = <<>>
    /\ sB = <<>> /\ sC = NotRun /\ spc = "idle"

\* T1 = {}
EmptyDict == [x \in {} |-> 0]

DrvIdle ==
    /\ args = [driver |-> "none", sizes |-> <<>>, repeats |-> 0, algo |-> "none",
               block |-> 0, density |-> [num |-> 0, den |-> 1], threads |-> 0]
    /\ dpc = "idle" /\ sidx = 0 /\ r = 0 /\ seedA = 0 /\ seedB = 0
    /\ dA = <<>> /\ dB = <<>> /\ dt = 0 /\ times = <<>> /\ T1 = EmptyDict
    /\ records = <<>> /\ generated = 0 /\ multiplied = 0

ParInit ==
    /\ \E n \in 0..MaxN, sa \in 0..MaxSeed, sb \in 0..MaxSeed :
          /\ A = gen_dense(n, BASE_SEED + sa)
          /\ B = gen_dense(n, BASE_SEED + sb)
    /\ p \in 1..MaxP
    /\ tasks = <<>>
    /\ futures = <<>>
    /\ C = <<>>
    /\ merged = 0
    /\ ppc = "start"
    /\ KernIdle
    /\ CsrIdle
    /\ DrvIdle

\* parallel_mul up to the submission of the tasks to the pool
ParBuild ==
    /\ ppc = "start"
    /\ tasks' = BuildTasks(A, B, p)
    /\ C' = Zeros(Len(A), Len(A))
    /\ futures' = [t \in 1..p |-> Pending]
    /\ ppc' = "map"
    /\ UNCHANGED <<A, B, p, merged, kernVars, csrVars, drvVars>>

\* one pool process runs worker_chunk on some task t that is not finished
WorkerRun ==
    /\ ppc = "map"
    /\ \E t \in 1..p :
          /\ ~futures[t].done
          /\ futures' = [futures EXCEPT
                            ![t] = [done |-> TRUE, failed |-> FALSE,
                                    result |-> worker_chunk(tasks[t])]]
    /\ UNCHANGED <<A, B, p, tasks, C, merged, ppc, kernVars, csrVars, drvVars>>

\* the worker of some unfinished task raises (the process dies, runs out of
\* memory, ...): its future finishes with the exception
WorkerFail ==
    /\ ppc = "map"
    /\ \E t \in 1..p :
          /\ ~futures[t].done
          /\ futures' = [futures EXCEPT ![t] = Failed]
    /\ UNCHANGED <<A, B, p, tasks, C, merged, ppc, kernVars, csrVars, drvVars>>

\* ex.map yields the results in task order, each as soon as it is ready;
\* the loop body writes its rows into C (IndexError past the end of C).
\* The exception of a failed worker leaves the loop and parallel_mul: the
\* local C, with the chunks merged so far, is dropped.
MergeNext ==
    /\ ppc = "map"
    /\ merged < p
    /\ futures[merged + 1].done
    /\ LET res == futures[merged + 1].result
       IN  IF Raises(futures[merged + 1])
           THEN /\ ppc' = "WorkerFailure"
                /\ UNCHANGED <<C, merged>>
           ELSE IF res.start_i + Len(res.C_chunk) > Len(C)
           THEN /\ ppc' = "IndexError"
                /\ UNCHANGED <<C, merged>>
           ELSE /\ C' = MergeChunk(C, res)
                /\ merged' = merged + 1
                /\ ppc' = ppc
    /\ UNCHANGED <<A, B, p, tasks, futures, kernVars, csrVars, drvVars>>

\* return C
ParReturn ==
    /\ ppc = "map"
    /\ merged = p
    /\ ppc' = "done"
    /\ UNCHANGED <<A, B, p, tasks, futures, C, merged, kernVars, csrVars, drvVars>>

ParNext ==
    \/ ParBuild
    \/ WorkerRun
    \/ WorkerFail
    \/ MergeNext
    \/ ParReturn

SpecPar == ParInit /\ [][ParNext]_vars

(***************************************************************************)
(* C1.  For every square A, B of dimension n >= 1 and every worker count   *)
(* p with 1 <= p <= 2n, parallel_mul(A, B, p) raises no error and returns  *)
(* an n x n matrix equal element-wise to matmul_basic(A, B), also when     *)
(* p > n and some workers receive zero rows.                               *)
(***************************************************************************)
C1_ParallelEqualsBasic ==
    (Len(A) >= 1 /\ p >= 1 /\ p <= 2 * Len(A)) =>
        /\ ppc # "IndexError"
        /\ ppc = "done" =>
              /\ Len(C) = Len(A)
              /\ \A i \in 1..Len(C) : Len(C[i]) = Len(A)
              /\ C = matmul_basic(A, B)

\* a finished call with more workers than rows: some worker got zero rows,
\* and the product is not the zero matrix
C1_Witness ==
    /\ ppc = "done"
    /\ Len(A) >= 2 /\ p > Len(A) /\ p <= 2 * Len(A)
    /\ \E t \in 1..p : futures[t].done /\ futures[t].result.C_chunk = <<>>
    /\ C # Zeros(Len(A), Len(A))
    /\ C = matmul_basic(A, B)

(***************************************************************************)
(* C2.  For every n >= 0 and p >= 1 the p tasks cover row ranges [i0, i1)  *)
(* of A that are contiguous, pairwise disjoint and contain every row index *)
(* 0..n-1 exactly once; the first p-1 ranges have n // p rows and the last *)
(* n - (p-1)*(n // p); the merged result is the same whatever the order in *)
(* which the result chunks are merged.                                     *)
(***************************************************************************)
RangeLo(t) == tasks[t].start_i
RangeHi(t) == tasks[t].start_i + Len(tasks[t].A_chunk)

Perms(np) ==
    {f \in [1..np -> 1..np] : \A a, b \in 1..np : a # b => f[a] # f[b]}

RECURSIVE MergeInOrder(_, _, _, _)
MergeInOrder(Cm, results, order, k) ==
    IF k > Len(order) THEN Cm
    ELSE MergeInOrder(MergeChunk(Cm, results[order[k]]), results, order, k + 1)

C2_RowPartition ==
    ppc # "start" =>
        LET n == Len(A)
            chunk == n \div p
        IN  /\ Len(tasks) = p
            /\ \A t \in 1..p :
                  /\ RangeLo(t) = (t - 1) * chunk
                  /\ RangeHi(t) - RangeLo(t) =
                        (IF t < p THEN chunk ELSE n - (p - 1) * chunk)
                  /\ RangeHi(t) <= n
                  /\ \A k \in 1..Len(tasks[t].A_chunk) :
                        tasks[t].A_chunk[k] = A[RangeLo(t) + k]
            /\ RangeLo(1) = 0
            /\ \A t \in 1..(p - 1) : RangeHi(t) = RangeLo(t + 1)
            /\ RangeHi(p) = n
            /\ \A row \in 0..(n - 1) :
                  Cardinality({t \in 1..p : RangeLo(t) <= row /\ row < RangeHi(t)}) = 1
            /\ \A s, t \in 1..p :
                  s # t => (RangeHi(s) <= RangeLo(t) \/ RangeHi(t) <= RangeLo(s))
            /\ ppc = "done" =>
                  \A f \in Perms(p) :
                      MergeInOrder(Zeros(n, n),
                                   [t \in 1..p |-> worker_chunk(tasks[t])], f, 1) = C

\* an uneven division: 3 rows over 2 workers (1 row, then 2 rows), merged
C2_Witness ==
    /\ ppc = "done"
    /\ Len(A) = 3 /\ p = 2
    /\ Len(tasks[1].A_chunk) = 1 /\ Len(tasks[2].A_chunk) = 2
    /\ C # Zeros(3, 3)

(***************************************************************************)
(* The dense kernels of Stage 2 applied to one pair of generated matrices. *)
(***************************************************************************)
ParIdle ==
    /\ A = <<>> /\ B = <<>> /\ p = 1 /\ tasks = <<>> /\ futures = <<>>
    /\ C = <<>> /\ merged = 0 /\ ppc = "idle"

KernInit ==
    /\ \E n \in 1..MaxN, sa \in 0..MaxSeed, sb \in 0..MaxSeed :
          /\ kA = gen_dense(n, BASE_SEED + sa)
          /\ kB = gen_dense(n, BASE_SEED + sb)
          /\ BS \in 1..(2 * n)
    /\ Cbasic = NotRun /\ Ctransposed = NotRun /\ Cblocked = NotRun
    /\ ParIdle
    /\ CsrIdle
    /\ DrvIdle

RunBasic ==
    /\ Cbasic = NotRun
    /\ Cbasic' = Returned(matmul_basic(kA, kB))
    /\ UNCHANGED <<kA, kB, BS, Ctransposed, Cblocked, parVars, csrVars, drvVars>>

RunTransposed ==
    /\ Ctransposed = NotRun
    /\ Ctransposed' = Returned(matmul_transposed(kA, kB))
    /\ UNCHANGED <<kA, kB, BS, Cbasic, Cblocked, parVars, csrVars, drvVars>>

RunBlocked ==
    /\ Cblocked = NotRun
    /\ Cblocked' = matmul_blocked(kA, kB, BS)
    /\ UNCHANGED <<kA, kB, BS, Cbasic, Ctransposed, parVars, csrVars, drvVars>>

KernNext == RunBasic \/ RunTransposed \/ RunBlocked

SpecKern == KernInit /\ [][KernNext]_vars

(***************************************************************************)
(* C3.  For square A, B of equal dimension n, matmul_basic,                *)
(* matmul_transposed and matmul_blocked with BS in {1, n, n+1, 2n} agree   *)
(* element-wise (exactly, under exact arithmetic), also when n is not a    *)
(* multiple of BS and the tiles are clamped at the matrix edge.            *)
(***************************************************************************)
ClaimedBlockSizes(n) == {1, n, n + 1, 2 * n}

C3_KernelsAgree ==
    LET n == Len(kA)
    IN  /\ (Cbasic # NotRun /\ Ctransposed # NotRun) =>
              Ctransposed = Cbasic
        /\ (Cbasic # NotRun /\ Cblocked # NotRun /\ BS \in ClaimedBlockSizes(n)) =>
              Cblocked = Cbasic

\* all three kernels have run, the tile is clamped (n is no multiple of BS)
\* and the product is neither zero nor symmetric
C3_Witness ==
    /\ Cbasic # NotRun /\ Ctransposed # NotRun /\ Cblocked # NotRun
    /\ Len(kA) = 3 /\ BS = 4
    /\ Cblocked = Cbasic /\ Ctransposed = Cbasic
    /\ Cbasic.val # Zeros(3, 3)
    /\ Cbasic.val # Transpose(Cbasic.val, 3)

(***************************************************************************)
(* Stage 2: gen_sparse_csr and spmm_csr_dense.                             *)
(* A density is the rational num/den.                                      *)
(***************************************************************************)
\* int(x) for the rational x = a/b, b > 0: truncation toward zero
IntOf(a, b) == IF a >= 0 THEN a \div b ELSE 0 - ((0 - a) \div b)

\* k with the extra nonzero given to the rows i <= leftover
RowCountInclusive(i, perRow, left) == perRow + (IF i <= left THEN 1 ELSE 0)

\* k = per_row + (1 if i < leftover else 0)
RowCount(i, perRow, left) == perRow + (IF i < left THEN 1 ELSE 0)

\* rnd.sample(range(n), k): the k-element lists of distinct columns, in every
\* order the generator can produce them
Samples(n, k) ==
    {s \in [1..k -> 0..(n - 1)] : \A a, b \in 1..k : a # b => s[a] # s[b]}

\* list(range(n))
RangeList(n) == [q \in 1..n |-> q - 1]

RECURSIVE InsertSorted(_, _)
InsertSorted(x, s) ==
    IF s = <<>> THEN <<x>>
    ELSE IF x <= Head(s) THEN <<x>> \o s
    ELSE <<Head(s)>> \o InsertSorted(x, Tail(s))

RECURSIVE SortAscending(_)
SortAscending(s) ==
    IF s = <<>> THEN <<>> ELSE InsertSorted(Head(s), SortAscending(Tail(s)))

\* the sample emitted as drawn, without cols.sort()
SortColsSkipped(cols) == cols

\* cols.sort()
SortCols(cols) == SortAscending([q \in 1..Len(cols) |-> cols[q]])

\* a start that skips the first nonzero of the row
RowStartAfterFirst(rp, i) == rp[i + 1] + 1

\* start of the nonzeros of row i (0-based): row_ptr[i]
RowStart(rp, i) == rp[i + 1]

RECURSIVE NzLoop(_, _, _, _, _, _, _)
\* for p in range(start, end): k = col_idx[p]; Ci[j] += vals[p] * B[k][j]
NzLoop(Ci, q, end, ci, vs, Bm, n) ==
    IF q >= end THEN Ci
    ELSE NzLoop([j \in 1..n |-> Ci[j] + vs[q + 1] * Bm[ci[q + 1] + 1][j]],
                q + 1, end, ci, vs, Bm, n)

\* The outcome of spmm_csr_dense: len(B[0]) raises IndexError for B = [].
spmm_csr_dense(rp, ci, vs, Bm) ==
    IF Bm = <<>> THEN [err |-> "IndexError", val |-> <<>>]
    ELSE LET n == Len(Bm[1])
             m == Len(rp) - 1
         IN  Returned([i \in 1..m |->
                 NzLoop([j \in 1..n |-> 0], RowStart(rp, i - 1), rp[i + 1],
                        ci, vs, Bm, n)])

Densities == {[num |-> a, den |-> 4] : a \in (0 - 1)..MaxDensityNum}

CsrInit ==
    /\ sn \in 0..MaxN
    /\ density \in Densities
    /\ sseed \in 0..MaxSeed
    /\ nnz_target = 0 /\ per_row = 0 /\ leftover = 0 /\ srow = 0
    /\ row_ptr = <<>> /\ col_idx = <<>> /\ vals = <<>>
    /\ sB = <<>> /\ sC = NotRun
    /\ spc = "start"
    /\ ParIdle
    /\ KernIdle
    /\ DrvIdle

\* gen_sparse_csr up to the row loop; nnz_target // n raises for n = 0
CsrBegin ==
    /\ spc = "start"
    /\ IF sn = 0
       THEN /\ spc' = "ZeroDivisionError"
            /\ UNCHANGED <<nnz_target, per_row, leftover, row_ptr>>
       ELSE LET target == IntOf(sn * sn * density.num, density.den)
                perRow == Max(0, target \div sn)
            IN  /\ nnz_target' = target
                /\ per_row' = perRow
                /\ leftover' = target - perRow * sn
                /\ row_ptr' = <<0>>
                /\ spc' = "rows"
    /\ UNCHANGED <<sn, density, sseed, srow, col_idx, vals, sB, sC, parVars, kernVars, drvVars>>

\* one iteration of `for i in range(n)`
CsrRow ==
    /\ spc = "rows"
    /\ srow < sn
    /\ LET k == RowCount(srow, per_row, leftover)
       IN  \E sample \in (IF k <= sn THEN Samples(sn, k) ELSE {RangeList(sn)}) :
              LET cols == SortCols(sample)
              IN  /\ col_idx' = col_idx \o cols
                  /\ vals' = vals \o [q \in 1..Len(cols) |->
                                         Rand(BASE_SEED + sseed, Len(vals) + q)]
                  /\ row_ptr' = Append(row_ptr, Len(col_idx) + Len(cols))
    /\ srow' = srow + 1
    /\ UNCHANGED <<sn, density, sseed, nnz_target, per_row, leftover, sB, sC, spc,
                   parVars, kernVars, drvVars>>

\* return row_ptr, col_idx, vals
CsrReturn ==
    /\ spc = "rows"
    /\ srow = sn
    /\ spc' = "generated"
    /\ UNCHANGED <<sn, density, sseed, nnz_target, per_row, leftover, srow,
                   row_ptr, col_idx, vals, sB, sC, parVars, kernVars, drvVars>>

\* B = gen_dense(n, BASE_SEED+1), as run_once pairs it with the CSR matrix
CsrGenB ==
    /\ spc = "generated"
    /\ sB' = gen_dense(sn, BASE_SEED + sseed + 1)
    /\ spc' = "ready"
    /\ UNCHANGED <<sn, density, sseed, nnz_target, per_row, leftover, srow,
                   row_ptr, col_idx, vals, sC, parVars, kernVars, drvVars>>

Spmm ==
    /\ spc = "ready"
    /\ sC' = spmm_csr_dense(row_ptr, col_idx, vals, sB)
    /\ spc' = "multiplied"
    /\ UNCHANGED <<sn, density, sseed, nnz_target, per_row, leftover, srow,
                   row_ptr, col_idx, vals, sB, parVars, kernVars, drvVars>>

CsrNext == CsrBegin \/ CsrRow \/ CsrReturn \/ CsrGenB \/ Spmm

SpecCsr == CsrInit /\ [][CsrNext]_vars

CsrReturned == spc \in {"generated", "ready", "multiplied"}

(***************************************************************************)
(* C4.  Every triple (row_ptr, col_idx, vals) returned by gen_sparse_csr   *)
(* has len(row_ptr) = n+1, row_ptr[0] = 0, row_ptr non-decreasing,         *)
(* row_ptr[n] = len(col_idx) = len(vals), every column index in [0, n),    *)
(* and within every row strictly ascending column indices.                 *)
(***************************************************************************)
C4_CsrWellFormed ==
    CsrReturned =>
        /\ Len(row_ptr) = sn + 1
        /\ row_ptr[1] = 0
        /\ \A i \in 1..sn : row_ptr[i] <= row_ptr[i + 1]
        /\ row_ptr[sn + 1] = Len(col_idx)
        /\ Len(col_idx) = Len(vals)
        /\ \A q \in 1..Len(col_idx) : 0 <= col_idx[q] /\ col_idx[q] < sn
        /\ \A i \in 1..sn :
              \A q \in (row_ptr[i] + 1)..(row_ptr[i + 1] - 1) :
                  col_idx[q] < col_idx[q + 1]

\* a returned matrix with a row of two nonzeros and a row that does not start
\* at column 0
C4_Witness ==
    /\ CsrReturned
    /\ sn = 3
    /\ \E i \in 1..sn : row_ptr[i + 1] - row_ptr[i] >= 2
    /\ \E i \in 1..sn : row_ptr[i + 1] > row_ptr[i] /\ col_idx[row_ptr[i] + 1] > 0

(***************************************************************************)
(* C5.  For n >= 1 and density in (0, 1], row i holds exactly              *)
(* base_per_row + (1 if i < leftover else 0) nonzeros, with                *)
(* target = floor(n*n*density), base_per_row = target // n and             *)
(* leftover = target - base_per_row*n; row counts differ by at most 1 and  *)
(* len(col_idx) = target.  When the requested count k of a row exceeds n,  *)
(* the row uses all n columns.                                             *)
(***************************************************************************)
ClaimTarget == (sn * sn * density.num) \div density.den
ClaimBase == ClaimTarget \div sn
ClaimLeftover == ClaimTarget - ClaimBase * sn
ClaimK(i) == ClaimBase + (IF i < ClaimLeftover THEN 1 ELSE 0)
RowNnz(i) == row_ptr[i + 2] - row_ptr[i + 1]
RowCols(i) == [q \in 1..RowNnz(i) |-> col_idx[row_ptr[i + 1] + q]]

C5_RowCounts ==
    (CsrReturned /\ sn >= 1 /\ density.num > 0) =>
        /\ density.num <= density.den =>
              /\ \A i \in 0..(sn - 1) : RowNnz(i) = ClaimK(i)
              /\ \A i, j \in 0..(sn - 1) :
                    RowNnz(i) - RowNnz(j) <= 1 /\ RowNnz(j) - RowNnz(i) <= 1
              /\ Len(col_idx) = ClaimTarget
        /\ \A i \in 0..(sn - 1) :
              ClaimK(i) > sn => RowCols(i) = RangeList(sn)

\* density 2/4 of a 3 x 3 matrix: target 4, one leftover: rows of 2, 1, 1
C5_Witness ==
    /\ CsrReturned
    /\ sn = 3 /\ density = [num |-> 2, den |-> 4]
    /\ ClaimTarget = 4 /\ ClaimLeftover = 1
    /\ RowNnz(0) = 2 /\ RowNnz(1) = 1 /\ RowNnz(2) = 1
    /\ Len(col_idx) = 4

(***************************************************************************)
(* C6.  spmm_csr_dense returns a dense matrix with len(row_ptr)-1 rows and *)
(* len(B[0]) columns whose entry C[i][j] is the sum over p in              *)
(* [row_ptr[i], row_ptr[i+1]) of vals[p] * B[col_idx[p]][j]; a matrix with *)
(* zero nonzeros yields the all-zero matrix of that shape.                 *)
(***************************************************************************)
RECURSIVE ClaimSum(_, _, _)
\* sum over the 0-based positions q..(end-1)
ClaimSum(q, end, j) ==
    IF q >= end THEN 0
    ELSE vals[q + 1] * sB[col_idx[q + 1] + 1][j] + ClaimSum(q + 1, end, j)

C6_SpmmEntries ==
    spc = "multiplied" =>
        /\ sC.err = "none"
        /\ Len(sC.val) = Len(row_ptr) - 1
        /\ \A i \in 1..Len(sC.val) :
              /\ Len(sC.val[i]) = Len(sB[1])
              /\ \A j \in 1..Len(sB[1]) :
                    sC.val[i][j] = ClaimSum(row_ptr[i], row_ptr[i + 1], j)
        /\ Len(col_idx) = 0 => sC.val = Zeros(Len(row_ptr) - 1, Len(sB[1]))

\* a product of a matrix with rows of one and of two nonzeros that is not zero
C6_Witness ==
    /\ spc = "multiplied"
    /\ sn = 3 /\ Len(col_idx) = 4
    /\ sC.err = "none"
    /\ \A i \in 1..3 : \E j \in 1..3 : sC.val[i][j] > 0

(***************************************************************************)
(* The benchmark drivers: mm_baseline.py (main, bench), mm_opt.py (main,   *)
(* run_once) and mm_opt_par.py (main).  args is the argparse namespace;    *)
(* a driver that has no such option holds the default in its field.        *)
(* Times are whole milliseconds.  A run is                                 *)
(*   start -> (gen -> mul [-> rec])* [-> agg] ... -> done,  or -> error    *)
(* where error is an uncaught exception that ends the process.             *)
(***************************************************************************)

\* parallel_mul as one call: ZeroDivisionError from n // p for p = 0,
\* ValueError from ProcessPoolExecutor(max_workers=p) for p < 0, otherwise
\* the chunks merged in task order (the order ex.map yields them).
RECURSIVE MergeAll(_, _, _)
MergeAll(Cm, ts, t) ==
    IF t > Len(ts) THEN Cm
    ELSE MergeAll(MergeChunk(Cm, worker_chunk(ts[t])), ts, t + 1)

parallel_mul(Am, Bm, np) ==
    IF np = 0 THEN [err |-> "ZeroDivisionError", val |-> <<>>]
    ELSE IF np < 0 THEN [err |-> "ValueError", val |-> <<>>]
    ELSE Returned(MergeAll(Zeros(Len(Am), Len(Am)), BuildTasks(Am, Bm, np), 1))

\* f"{x:.3f}" of the rational x = a/b (b > 0, a >= 0), in thousandths:
\* round to nearest, ties to even
Fmt3(a, b) ==
    LET q == (1000 * a) \div b
        rem == 1000 * a - q * b
    IN  IF 2 * rem > b THEN q + 1
        ELSE IF 2 * rem = b THEN q + (q % 2)
        ELSE q

RECURSIVE SumSeq(_)
SumSeq(s) == IF s = <<>> THEN 0 ELSE Head(s) + SumSeq(Tail(s))

\* statistics.mean(times), as a rational
Mean(ts) == [num |-> SumSeq(ts), den |-> Len(ts)]

\* mm_opt_par.py lines 68-76, with a baseline kept from the first repetition
\* of a size and every speedup computed from it
SpeedStepFirstBaseline(t1, threads, n, d) ==
    LET t1n == IF threads = 1 /\ n \notin DOMAIN t1 THEN (n :> d) @@ t1 ELSE t1
    IN  [T1 |-> t1n,
         speed |-> IF n \in DOMAIN t1n THEN [num |-> t1n[n], den |-> d]
                   ELSE [num |-> 1, den |-> 1]]

\* the same lines with 0.0 as the default
SpeedStepDefaultZero(t1, threads, n, d) ==
    LET t1n == IF threads = 1 THEN (n :> d) @@ t1 ELSE t1
    IN  [T1 |-> t1n,
         speed |-> IF threads = 1 THEN [num |-> 1, den |-> 1]
                   ELSE IF n \in DOMAIN t1n THEN [num |-> t1n[n], den |-> d]
                   ELSE [num |-> 0, den |-> 1]]

\* mm_opt_par.py lines 68-76: store the baseline, then compute speed
\*   if threads == 1: T1[n] = dt
\*   if threads == 1: speed = 1.0
\*   else: base = T1.get(n); speed = base/dt if base is not None else 1.0
SpeedStep(t1, threads, n, d) ==
    LET t1n == IF threads = 1 THEN (n :> d) @@ t1 ELSE t1
    IN  [T1 |-> t1n,
         speed |-> IF threads = 1 THEN [num |-> 1, den |-> 1]
                   ELSE IF n \in DOMAIN t1n THEN [num |-> t1n[n], den |-> d]
                   ELSE [num |-> 1, den |-> 1]]

\* eff = speed / args.threads
Efficiency(speed, threads) == [num |-> speed.num, den |-> speed.den * threads]

\* the seeds the driver hands to the two generator calls of repetition rep
SeedOfA(driver, rep) ==
    IF driver = "baseline" THEN BASE_SEED + rep
    ELSE IF driver = "opt" THEN BASE_SEED
    ELSE SEED

SeedOfB(driver, rep) ==
    IF driver = "baseline" THEN BASE_SEED + 1 + rep
    ELSE IF driver = "opt" THEN BASE_SEED + 1
    ELSE SEED

\* the multiplication the driver times.  For the sparse path only the
\* outcome is kept: spmm_csr_dense raises exactly when B is empty, whatever
\* the CSR matrix (SpecCsr models its content).
Multiply(a, Am, Bm) ==
    IF a.driver = "par" THEN parallel_mul(Am, Bm, a.threads)
    ELSE IF a.driver = "baseline" THEN Returned(matmul_basic(Am, Bm))
    ELSE IF a.algo = "sparse" THEN
        [err |-> spmm_csr_dense(<<0>>, <<>>, <<>>, Bm).err, val |-> <<>>]
    ELSE IF a.algo = "blocked" THEN matmul_blocked(Am, Bm, a.block)
    ELSE IF a.algo = "transposed" THEN Returned(matmul_transposed(Am, Bm))
    ELSE Returned(matmul_basic(Am, Bm))

\* the command lines tried
SizeArgs == {<<2>>, <<1, 2>>, <<2, 2>>, <<0>>, << -1 >>, <<2, 0>>}
Algos == {"basic", "blocked", "transposed", "sparse"}
BlockArgs == {-1, 0, 1, DefaultBlock}
DensityArgs == {[num |-> -1, den |-> 20], DefaultDensity, [num |-> 30, den |-> 20]}
\* measured times of one multiplication, in ms
Durations == {2, 3}

DrvInit ==
    /\ \E drv \in {"baseline", "opt", "par"}, sz \in SizeArgs,
          rep \in 1..MaxRepeats, al \in Algos, bl \in BlockArgs,
          de \in DensityArgs, th \in (-1)..MaxThreads :
          /\ drv = "baseline" =>
                al = "basic" /\ bl = DefaultBlock /\ de = DefaultDensity /\ th = 1
          /\ drv = "opt" => th = 1
          /\ drv = "par" => al = "basic" /\ bl = DefaultBlock /\ de = DefaultDensity
          /\ args = [driver |-> drv, sizes |-> sz, repeats |-> rep, algo |-> al,
                     block |-> bl, density |-> de, threads |-> th]
    /\ dpc = "start" /\ sidx = 0 /\ r = 0 /\ seedA = 0 /\ seedB = 0
    /\ dA = <<>> /\ dB = <<>> /\ dt = 0 /\ times = <<>> /\ T1 = EmptyDict
    /\ records = <<>> /\ generated = 0 /\ multiplied = 0
    /\ ParIdle
    /\ KernIdle
    /\ CsrIdle

\* parse_args, open the CSV file, write the header, enter the size loop
DrvStart ==
    /\ dpc = "start"
    /\ dpc' = "gen"
    /\ sidx' = 1
    /\ r' = 0
    /\ times' = <<>>
    /\ T1' = EmptyDict
    /\ UNCHANGED <<args, seedA, seedB, dA, dB, dt, records, generated, multiplied,
                   parVars, kernVars, csrVars>>

\* generate the two operands of repetition r of size sizes[sidx]
\* (gen_sparse_csr raises ZeroDivisionError for n = 0)
DrvGenerate ==
    /\ dpc = "gen"
    /\ LET n == args.sizes[sidx]
           sa == SeedOfA(args.driver, r)
           sb == SeedOfB(args.driver, r)
       IN  IF args.driver = "opt" /\ args.algo = "sparse" /\ n = 0
           THEN /\ dpc' = "ZeroDivisionError"
                /\ UNCHANGED <<seedA, seedB, dA, dB, generated>>
           ELSE /\ seedA' = sa
                /\ seedB' = sb
                /\ dA' = IF args.driver = "opt" /\ args.algo = "sparse"
                         THEN <<>> ELSE gen_dense(n, sa)
                /\ dB' = gen_dense(n, sb)
                /\ generated' = generated + 2
                /\ dpc' = "mul"
    /\ UNCHANGED <<args, sidx, r, dt, times, T1, records, multiplied,
                   parVars, kernVars, csrVars>>

\* t0; multiply; t1; dt.  Stage 1 and 2 append the time and go on with the
\* next repetition; Stage 3 goes on to write the record of this repetition.
DrvMultiply ==
    /\ dpc = "mul"
    /\ LET res == Multiply(args, dA, dB)
       IN  IF res.err # "none"
           THEN /\ dpc' = res.err
                /\ UNCHANGED <<dt, times, r, multiplied>>
           ELSE \E d \in Durations :
                /\ dt' = d
                /\ multiplied' = multiplied + 1
                /\ IF args.driver = "par"
                   THEN /\ dpc' = "rec"
                        /\ UNCHANGED <<times, r>>
                   ELSE /\ times' = Append(times, d)
                        /\ r' = r + 1
                        /\ dpc' = IF r + 1 = args.repeats THEN "agg" ELSE "gen"
    /\ UNCHANGED <<args, sidx, seedA, seedB, dA, dB, T1, records, generated,
                   parVars, kernVars, csrVars>>

\* Stage 3, lines 68-84: baseline, speedup, efficiency, one CSV row per
\* repetition; then the next repetition, the next size or the end
DrvRecord ==
    /\ dpc = "rec"
    /\ LET n == args.sizes[sidx]
           step == SpeedStep(T1, args.threads, n, dt)
           eff == Efficiency(step.speed, args.threads)
       IN  /\ T1' = step.T1
           /\ records' = Append(records,
                 [lang |-> "python", size |-> n, threads |-> args.threads,
                  repeats |-> args.repeats, avg_time_ms |-> Fmt3(dt, 1),
                  speedup |-> Fmt3(step.speed.num, step.speed.den),
                  efficiency |-> Fmt3(eff.num, eff.den)])
    /\ IF r + 1 < args.repeats
       THEN r' = r + 1 /\ sidx' = sidx /\ dpc' = "gen"
       ELSE /\ r' = 0
            /\ sidx' = sidx + 1
            /\ dpc' = IF sidx = Len(args.sizes) THEN "done" ELSE "gen"
    /\ UNCHANGED <<args, seedA, seedB, dA, dB, dt, times, generated, multiplied,
                   parVars, kernVars, csrVars>>

\* Stage 1 and 2: the mean of the repetitions' times, one CSV row per size
DrvAggregate ==
    /\ dpc = "agg"
    /\ LET n == args.sizes[sidx]
           avg == Mean(times)
       IN  records' = Append(records,
                 [lang |-> "python", size |-> n, threads |-> 1,
                  repeats |-> args.repeats, avg_time_ms |-> Fmt3(avg.num, avg.den),
                  speedup |-> 1000, efficiency |-> 1000])
    /\ times' = <<>>
    /\ r' = 0
    /\ sidx' = sidx + 1
    /\ dpc' = IF sidx = Len(args.sizes) THEN "done" ELSE "gen"
    /\ UNCHANGED <<args, seedA, seedB, dA, dB, dt, T1, generated, multiplied,
                   parVars, kernVars, csrVars>>

DrvNext == DrvStart \/ DrvGenerate \/ DrvMultiply \/ DrvRecord \/ DrvAggregate

SpecDrv == DrvInit /\ [][DrvNext]_vars

ParDriver == args.driver = "par"

C8_SingleWorkerSpeedupOne ==
    (ParDriver /\ args.threads = 1) =>
        \A q \in 1..Len(records) :
            records[q].speedup = 1000 /\ records[q].efficiency = 1000

\* two repetitions of one size with different measured times, p = 1
C8_Witness ==
    /\ ParDriver /\ args.threads = 1
    /\ Len(records) >= 2
    /\ records[1].size = records[2].size
    /\ records[1].avg_time_ms = 3000 /\ records[2].avg_time_ms = 2000
    /\ records[2].speedup = 1000 /\ records[2].efficiency = 1000
    /\ T1[records[2].size] = 2

(***************************************************************************)
(* C9.  In every driver (baseline, optimized, parallel) the two operands   *)
(* handed to one multiplication are generated from distinct seeds, so for  *)
(* n >= 1 the driver never multiplies a matrix by one generated from the   *)
(* same seed (A == B).                                                     *)
(***************************************************************************)
SparseRun == args.driver = "opt" /\ args.algo = "sparse"

\* seedA, seedB, dA, dB are the operands of the latest multiplication
C9_DistinctSeeds ==
    (multiplied > 0 /\ Len(dB) >= 1) =>
        /\ seedA # seedB
        /\ ~SparseRun => dA # dB

(***************************************************************************)
(* C10.  An invalid parameter (size <= 0, density outside (0,1], block     *)
(* size <= 0, worker count <= 0) is a fatal error surfaced before any      *)
(* computation starts: no matrix is generated or multiplied, no record is  *)
(* written, and the run does not end normally.                             *)
(***************************************************************************)
InvalidArgs ==
    \/ \E q \in 1..Len(args.sizes) : args.sizes[q] <= 0
    \/ args.density.num <= 0
    \/ args.density.num > args.density.den
    \/ args.block <= 0
    \/ args.threads <= 0

C10_InvalidRejectedFirst ==
    InvalidArgs =>
        /\ generated = 0
        /\ multiplied = 0
        /\ records = <<>>
        /\ dpc # "done"

(***************************************************************************)
(* C11.  As claimed: the merge into C starts only after every one of the   *)
(* p workers has completed, so no row of C is written while some worker    *)
(* is still running; and when a worker fails, parallel_mul does not        *)
(* return a matrix.                                                        *)
(***************************************************************************)
WorkerRunning == ppc = "map" /\ \E t \in 1..p : ~futures[t].done

\* some chunk already written into C holds at least one row
RowWritten ==
    ppc # "start" /\ \E t \in 1..merged : Len(futures[t].result.C_chunk) > 0

WorkerFailed == ppc # "start" /\ \E t \in 1..p : futures[t].failed

C11_MergeAfterJoin ==
    /\ WorkerRunning => ~RowWritten
    /\ WorkerFailed => ppc # "done"

(***************************************************************************)
(* C11, as the code has it.  The chunk of task t is written into C as      *)
(* soon as the workers of tasks 1..t have finished, later workers may      *)
(* still be running; every chunk written comes from a worker that          *)
(* finished without raising; parallel_mul returns C only when all p        *)
(* workers have finished and all p chunks are written; and when a worker   *)
(* fails parallel_mul does not return a matrix, whatever was merged        *)
(* before.                                                                 *)
(***************************************************************************)
C11_ReturnAfterAllWorkers ==
    /\ ppc # "start" =>
          \A t \in 1..merged : futures[t].done /\ ~futures[t].failed
    /\ ppc = "done" =>
          /\ merged = p
          /\ \A t \in 1..p : futures[t].done /\ ~futures[t].failed
    /\ WorkerFailed => ppc # "done"
    /\ ppc = "WorkerFailure" => merged < p /\ futures[merged + 1].failed

\* a worker failed after rows of an earlier chunk were merged, while yet
\* another worker was still running when the exception surfaced
C11_Witness ==
    /\ ppc = "WorkerFailure"
    /\ RowWritten
    /\ \E t \in 1..p : ~futures[t].done

(***************************************************************************)
(* C12.  For each requested size every driver runs the generate ->         *)
(* multiply -> measure cycle exactly `repeats` times, and repetition r     *)
(* generates its operands with a seed offset that increments with r: two   *)
(* repetitions of the same size never multiply matrices generated from     *)
(* the same seeds.  (Stated for valid arguments.)                          *)
(***************************************************************************)
\* repetition r of size sizes[sidx] is the ((sidx-1)*repeats + r + 1)-th
\* cycle of the run, and the run ends after Len(sizes) * repeats cycles
RepeatsExactly ==
    /\ dpc \in {"gen", "mul"} =>
          /\ r < args.repeats
          /\ multiplied = (sidx - 1) * args.repeats + r
    /\ dpc = "mul" => generated = 2 * (multiplied + 1)
    /\ dpc = "done" =>
          /\ multiplied = Len(args.sizes) * args.repeats
          /\ generated = 2 * multiplied

\* a generation step of a repetition r > 0: seedA, seedB are the seeds of
\* repetition r - 1 of the same size, seedA', seedB' those of repetition r
SeedsIncrement ==
    (dpc = "gen" /\ dpc' = "mul" /\ r > 0) =>
        /\ seedA' = seedA + 1
        /\ seedB' = seedB + 1
        /\ <<seedA', seedB'>> # <<seedA, seedB>>

C12_FreshSeedsEachRepetition ==
    [][~InvalidArgs => (RepeatsExactly /\ RepeatsExactly' /\ SeedsIncrement)]_vars

====
